---- MODULE Spec2Model ----
(***************************************************************************)
(* The weather + energy pipeline: load config, fetch both sources city by  *)
(* city with bounded retry, persist the raw tables, clean/merge them,      *)
(* audit the merged table, persist it and analyze it.                      *)
(*                                                                         *)
(* A table (pandas DataFrame) is a record [isNone, cols, rows]: cols the   *)
(* set of its column names, rows the sequence of its rows (records),       *)
(* isNone set for Python's None.  A cell that may be NaN is <<>> (NaN) or  *)
(* <<v>>.  Dates are day numbers; day 0 is a Monday.                       *)
(***************************************************************************)
EXTENDS Integers, Sequences, FiniteSets, TLC

VARIABLES
    pc,              \* position of run_pipeline
    config,          \* what config.yaml holds
    disk,            \* the three CSV artifacts on disk
    written,         \* artifacts written by this run
    cityIdx,         \* index of the fetch loop over config['cities']
    attempts,        \* attempts made so far by _fetch_url_with_retry for this call
    acc,             \* all_weather_data / all_energy_data
    httpLog,         \* the (service, city) calls issued, in order
    weather_data,    \* result of fetch_weather_data
    energy_data,     \* result of fetch_energy_data
    weather_df_proc, \* raw weather table handed to the transformer
    energy_df_proc,  \* raw energy table handed to the transformer
    processed_df,    \* result of clean_and_transform_data
    quality_report,  \* result of perform_data_quality_checks
    correlation_results, \* keys of the result of analyze_correlation
    stages,          \* the stages run_pipeline has executed, in order
    log              \* warning and error log entries

vars == <<pc, config, disk, written, cityIdx, attempts, acc, httpLog,
          weather_data, energy_data, weather_df_proc, energy_df_proc,
          processed_df, quality_report, correlation_results, stages, log>>

----------------------------------------------------------------------------
(* Bounds and program constants *)

Today == 10                 \* date.today(), as a day number
MaxRowsPerCall == 2         \* rows in one HTTP response
MaxRawRows == 2             \* rows of a raw table handed to the transformer alone
MaxTableRows == 2           \* rows of a table handed to the auditor alone

FourAttempts == 3 + 1       \* (variant: one attempt more before giving up)
MaxAttempts == 3            \* stop_after_attempt(3)
HighTempLimit == 130        \* max_temp_F > 130
LowTempLimit == -50         \* min_temp_F < -50
StaleDays == 2              \* (today - latest).days > 2

\* config['cities'], in the order of the file; pandas sorts names as strings.
Cities == <<"NYC", "CHI">>
CityRank(c) == IF c = "CHI" THEN 1 ELSE 2

----------------------------------------------------------------------------
(* Cells and tables *)

Null == <<>>
Some(v) == <<v>>
IsNull(x) == x = Null
Val(x) == x[1]

Range(s) == {s[i] : i \in 1..Len(s)}

RECURSIVE SeqsUpTo(_, _)
\* all sequences over S of length at most n
SeqsUpTo(S, n) ==
    IF n = 0 THEN {<<>>}
    ELSE LET shorter == SeqsUpTo(S, n - 1)
         IN  shorter \cup {Append(s, e) : s \in {t \in shorter : Len(t) = n - 1}, e \in S}

Frame(cols, rows) == [isNone |-> FALSE, cols |-> cols, rows |-> rows]
NoneFrame == [isNone |-> TRUE, cols |-> {}, rows |-> <<>>]
EmptyFrame == Frame({}, <<>>)
IsEmpty(df) == df.rows = <<>> \/ df.cols = {}

RECURSIVE Concat(_)
\* pd.concat(frames, ignore_index=True): rows in order, the union of the columns
Concat(frames) ==
    IF frames = <<>> THEN EmptyFrame
    ELSE LET rest == Concat(Tail(frames))
         IN  Frame(Head(frames).cols \cup rest.cols, Head(frames).rows \o rest.rows)

LogEntry(level, event, who) == [level |-> level, event |-> event, who |-> who]

----------------------------------------------------------------------------
(* data_fetcher.py *)

ConfigFiles == {"ok", "missing", "malformed"}
Credentials == {"valid", "missing", "placeholder"}

\* load_config: None when the file is missing or is not YAML
load_config(cfg) == cfg.file = "ok"

\* one upstream observation: NOAA {date, datatype, value}, EIA {period, value}
PipeDates == {Today}
\* NOAA dates read "YYYY-MM-DDT00:00:00" (<<day, 0>>), EIA periods "YYYY-MM-DD" (<<day>>)
NoaaDate(d) == <<d, 0>>
EiaPeriod(d) == <<d>>
WeatherObs == [date : {NoaaDate(d) : d \in PipeDates}, datatype : {"TMAX", "TMIN"}, value : {70}]
EnergyObs == [period : {EiaPeriod(d) : d \in PipeDates}, value : {-1, 5}]

\* what one HTTP call can come to: every attempt failing, a body that is not
\* JSON, a body without the results key, or a body with a list of rows
WeatherBodies == {[kind |-> "noresults", rows |-> <<>>], [kind |-> "badjson", rows |-> <<>>]}
                 \cup {[kind |-> "results", rows |-> r] : r \in SeqsUpTo(WeatherObs, MaxRowsPerCall)}
EnergyBodies == {[kind |-> "noresults", rows |-> <<>>], [kind |-> "badjson", rows |-> <<>>]}
                \cup {[kind |-> "results", rows |-> r] : r \in SeqsUpTo(EnergyObs, MaxRowsPerCall)}

\* df = pd.DataFrame(data['results']); df['city'] = city['name']
WeatherCityFrame(city, rows) ==
    Frame(IF rows = <<>> THEN {"city"} ELSE {"date", "datatype", "value", "city"},
          [i \in 1..Len(rows) |->
              [date |-> rows[i].date, datatype |-> rows[i].datatype,
               value |-> Some(rows[i].value), city |-> city]])

\* df = pd.DataFrame(data['response']['data']); df['region'] = city['name']
EnergyCityFrame(city, rows) ==
    Frame({"period", "value", "region"},
          [i \in 1..Len(rows) |->
              [period |-> rows[i].period, value |-> Some(rows[i].value), region |-> city]])

\* 'results' in data
WeatherHasResults(body) == body.kind = "results"
\* 'response' in data and 'data' in data['response'] and data['response']['data']
EnergyHasResults(body) == body.kind = "results" /\ body.rows # <<>>

\* the end of a fetcher: None when no city gave a frame, else the concatenation
\* (variant: a table also when no city gave a frame)
FetchResultAlwaysTable(frames) == Concat(frames)
FetchResult(frames) == IF frames = <<>> THEN NoneFrame ELSE Concat(frames)

\* not token or token == 'YOUR_TOKEN_HERE'
TokenOk(token) == token = "valid"

\* "return None  # Exit if any city fails", under except RetryError
\* (variant: the cities fetched so far are returned)
RetryErrorPartial(frames) == FetchResult(frames)
RetryErrorResult(frames) == NoneFrame
\* the same under except requests.exceptions.RequestException
RequestErrorResult(frames) == NoneFrame

\* the record of a call: appended at its first attempt, its outcome set when
\* the call ends (contributed: its frame was appended to the list)
CallIssued(calls, service, city, tried) ==
    IF tried = 0
    THEN Append(calls, [service |-> service, city |-> city, outcome |-> "pending",
                        contributed |-> FALSE])
    ELSE calls
CallOutcome(calls, outcome, contributed) ==
    [calls EXCEPT ![Len(calls)] = [@ EXCEPT !.outcome = outcome,
                                            !.contributed = contributed]]

----------------------------------------------------------------------------
(* data_processor.py *)

\* DataFrame.to_csv / pd.read_csv of a raw table: header and rows as written
to_csv(df) == [exists |-> TRUE, cols |-> df.cols, rows |-> df.rows]
NoFile == [exists |-> FALSE, cols |-> {}, rows |-> <<>>]
\* read_csv, FileNotFoundError caught: pd.DataFrame()
read_csv(file) == IF file.exists THEN Frame(file.cols, file.rows) ELSE EmptyFrame

\* pd.to_datetime of a date string: the day, at midnight
to_datetime(s) == s[1]

\* Timestamp.dayofweek (Monday=0) and day_name()
dayofweek(d) == d % 7
day_name(d) == <<"Monday", "Tuesday", "Wednesday", "Thursday", "Friday",
                 "Saturday", "Sunday">>[dayofweek(d) + 1]

RECURSIVE SumValues(_)
SumValues(rows) == IF rows = <<>> THEN 0 ELSE Val(Head(rows).value) + SumValues(Tail(rows))

\* aggfunc mean over the non-NaN observations of one (date, city, datatype);
\* NaN where there is none
PivotCell(rows, key, dt) ==
    LET m == SelectSeq(rows, LAMBDA r : r.date = key.date /\ r.city = key.city
                                          /\ r.datatype = dt /\ ~IsNull(r.value))
    IN  IF m = <<>> THEN Null ELSE Some(SumValues(m) \div Len(m))

KeyLess(a, b) ==
    a.date < b.date \/ (a.date = b.date /\ CityRank(a.city) < CityRank(b.city))

RECURSIVE SortKeysDescending(_)
\* (variant: the index sorted latest first)
SortKeysDescending(K) ==
    IF K = {} THEN <<>>
    ELSE LET m == CHOOSE k \in K : \A o \in K \ {k} : KeyLess(o, k)
         IN  <<m>> \o SortKeysDescending(K \ {m})

RECURSIVE SortKeys(_)
\* the index of a pivot table is sorted by (date, city)
SortKeys(K) ==
    IF K = {} THEN <<>>
    ELSE LET m == CHOOSE k \in K : \A o \in K \ {k} : KeyLess(k, o)
         IN  <<m>> \o SortKeys(K \ {m})

\* weather_df.pivot_table(index=['date','city'], columns='datatype',
\*                        values='value').reset_index(), after to_datetime
pivot_table(df) ==
    LET rows == [i \in 1..Len(df.rows) |->
                    [df.rows[i] EXCEPT !.date = to_datetime(df.rows[i].date)]]
        obs  == SelectSeq(rows, LAMBDA r : ~IsNull(r.value))
        keys == SortKeys({[date |-> r.date, city |-> r.city] : r \in Range(obs)})
    IN  Frame({"date", "city"} \cup {r.datatype : r \in Range(obs)},
              [i \in 1..Len(keys) |->
                  [date |-> keys[i].date, city |-> keys[i].city,
                   TMAX |-> PivotCell(obs, keys[i], "TMAX"),
                   TMIN |-> PivotCell(obs, keys[i], "TMIN")]])

\* rename TMAX/TMIN, then weather_df[['date','city','max_temp_F','min_temp_F']]:
\* a KeyError when a datatype never occurs
WeatherColsPresent(wide) == {"TMAX", "TMIN"} \subseteq wide.cols
WeatherWide(df) ==
    LET wide == pivot_table(df)
    IN  Frame({"date", "city", "max_temp_F", "min_temp_F"},
              [i \in 1..Len(wide.rows) |->
                  [date |-> wide.rows[i].date, city |-> wide.rows[i].city,
                   max_temp_F |-> wide.rows[i].TMAX,
                   min_temp_F |-> wide.rows[i].TMIN]])

\* rename period/value/region, to_datetime, keep the three columns
EnergyClean(df) ==
    Frame({"date", "city", "energy_consumption"},
          [i \in 1..Len(df.rows) |->
              [date |-> to_datetime(df.rows[i].period), city |-> df.rows[i].region,
               energy_consumption |-> df.rows[i].value]])

RECURSIVE MergeRows(_, _)
\* pd.merge(weather_df, energy_df, on=['date','city'], how='inner'): the left
\* rows in order, each with its matching right rows in order
MergeRows(L, R) ==
    IF L = <<>> THEN <<>>
    ELSE LET l == Head(L)
             m == SelectSeq(R, LAMBDA r : r.date = l.date /\ r.city = l.city)
         IN  [i \in 1..Len(m) |->
                 [date |-> l.date, city |-> l.city, max_temp_F |-> l.max_temp_F,
                  min_temp_F |-> l.min_temp_F,
                  energy_consumption |-> m[i].energy_consumption]]
             \o MergeRows(Tail(L), R)

MergedCols == {"date", "city", "max_temp_F", "min_temp_F", "energy_consumption"}
FeatureCols == {"energy_change", "day_of_week", "is_weekend"}

RECURSIVE KeepWhere(_, _, _)
\* the rows s[i..] whose index satisfies keep
KeepWhere(s, i, keep) ==
    IF i > Len(s) THEN <<>>
    ELSE (IF i \in keep THEN <<s[i]>> ELSE <<>>) \o KeepWhere(s, i + 1, keep)

\* DataFrame.duplicated(): a row equal to an earlier row
Duplicated(s) == {i \in 1..Len(s) : \E j \in 1..(i - 1) : s[j] = s[i]}

\* merged_df.drop_duplicates()
drop_duplicates(s) == KeepWhere(s, 1, (1..Len(s)) \ Duplicated(s))

\* merged_df[merged_df['energy_consumption'] >= 0]; NaN >= 0 is False
NonNegativeEnergy(s) ==
    SelectSeq(s, LAMBDA r : ~IsNull(r.energy_consumption) /\ Val(r.energy_consumption) >= 0)

\* groupby('city')['energy_consumption'].diff(): against the previous row of
\* the same city in table order
GroupDiff(s, i) ==
    LET before == {j \in 1..(i - 1) : s[j].city = s[i].city}
    IN  IF before = {} THEN Null
        ELSE LET p == CHOOSE j \in before : \A k \in before : k <= j
             IN  IF IsNull(s[i].energy_consumption) \/ IsNull(s[p].energy_consumption)
                 THEN Null
                 ELSE Some(Val(s[i].energy_consumption) - Val(s[p].energy_consumption))

AddFeatures(s) ==
    [i \in 1..Len(s) |->
        [date |-> s[i].date, city |-> s[i].city, max_temp_F |-> s[i].max_temp_F,
         min_temp_F |-> s[i].min_temp_F, energy_consumption |-> s[i].energy_consumption,
         energy_change |-> GroupDiff(s, i),
         day_of_week |-> day_name(s[i].date),
         is_weekend |-> dayofweek(s[i].date) >= 5]]

\* the block under "if not merged_df.empty"
DeriveFeatures(rows) == AddFeatures(NonNegativeEnergy(drop_duplicates(rows)))

\* clean_and_transform_data: [raised, df]
clean_and_transform_data(weather_df, energy_df) ==
    IF ~IsEmpty(weather_df) /\ ~WeatherColsPresent(pivot_table(weather_df))
    THEN [raised |-> TRUE, df |-> EmptyFrame]
    ELSE
    LET w == IF IsEmpty(weather_df) THEN weather_df ELSE WeatherWide(weather_df)
        e == IF IsEmpty(energy_df) THEN energy_df ELSE EnergyClean(energy_df)
    IN  IF ~IsEmpty(w) /\ ~IsEmpty(e)
        THEN LET merged == MergeRows(w.rows, e.rows)
             IN  IF merged # <<>>
                 THEN [raised |-> FALSE,
                       df |-> Frame(MergedCols \cup FeatureCols, DeriveFeatures(merged))]
                 ELSE [raised |-> FALSE, df |-> Frame(MergedCols, <<>>)]
        ELSE IF ~IsEmpty(w) THEN [raised |-> FALSE, df |-> w]
        ELSE IF ~IsEmpty(e) THEN [raised |-> FALSE, df |-> e]
        ELSE [raised |-> FALSE, df |-> EmptyFrame]

\* the columns whose cells can hold NaN
NullableCols == {"max_temp_F", "min_temp_F", "energy_consumption", "energy_change", "value"}

\* df.isnull().sum(), restricted to the columns with a count > 0
MissingCounts(df) ==
    LET count(c) == Cardinality({i \in 1..Len(df.rows) : IsNull(df.rows[i][c])})
        cols == {c \in df.cols \cap NullableCols : count(c) > 0}
    IN  [c \in cols |-> count(c)]

\* a report value: the text of a clean check, or what the check found
Text(t) == [text |-> t]
Records(rows) == [records |-> rows]

\* (variant: the limit itself counts as an outlier)
HighTempOutliersInclusive(df) ==
    SelectSeq(df.rows, LAMBDA r : ~IsNull(r.max_temp_F) /\ Val(r.max_temp_F) >= HighTempLimit)
HighTempOutliers(df) ==
    SelectSeq(df.rows, LAMBDA r : ~IsNull(r.max_temp_F) /\ Val(r.max_temp_F) > HighTempLimit)
LowTempOutliers(df) ==
    SelectSeq(df.rows, LAMBDA r : ~IsNull(r.min_temp_F) /\ Val(r.min_temp_F) < LowTempLimit)
NegativeEnergy(df) ==
    SelectSeq(df.rows, LAMBDA r : ~IsNull(r.energy_consumption) /\ Val(r.energy_consumption) < 0)

MaxDate(df) == CHOOSE d \in {r.date : r \in Range(df.rows)} :
                   \A o \in {r.date : r \in Range(df.rows)} : o <= d

\* (variant: a table exactly StaleDays old is already stale)
FreshnessInclusive(df) ==
    IF "date" \in df.cols /\ ~IsEmpty(df)
    THEN IF Today - MaxDate(df) >= StaleDays
         THEN [text |-> "Stale", latest |-> MaxDate(df)]
         ELSE Text("Fresh")
    ELSE Text("Unknown")

\* the freshness entry of the report
Freshness(df) ==
    IF "date" \in df.cols /\ ~IsEmpty(df)
    THEN IF Today - MaxDate(df) > StaleDays
         THEN [text |-> "Stale", latest |-> MaxDate(df)]
         ELSE Text("Fresh")
    ELSE Text("Unknown")

\* the temperature entries of the report: a key per kind of outlier found, or
\* the key temp_outliers when neither is
TempOutlierEntries(df) ==
    LET high == HighTempOutliers(df)
        low  == LowTempOutliers(df)
        keys == (IF high # <<>> THEN {"high_temp_outliers"} ELSE {})
                \cup (IF low # <<>> THEN {"low_temp_outliers"} ELSE {})
                \cup (IF high = <<>> /\ low = <<>> THEN {"temp_outliers"} ELSE {})
    IN  [k \in keys |->
            IF k = "high_temp_outliers" THEN Records(high)
            ELSE IF k = "low_temp_outliers" THEN Records(low)
            ELSE Text("None")]

\* the report with its keys and values
QualityReport(df) ==
    LET dups  == KeepWhere(df.rows, 1, Duplicated(df.rows))
        miss  == MissingCounts(df)
        temps == TempOutlierEntries(df)
        neg   == NegativeEnergy(df)
        keys  == {"duplicates", "missing_values", "negative_energy_consumption",
                  "data_freshness"} \cup DOMAIN temps
    IN  [k \in keys |->
            IF k = "duplicates" THEN (IF dups # <<>> THEN Records(dups) ELSE Text("None"))
            ELSE IF k = "missing_values"
                 THEN (IF DOMAIN miss # {} THEN [counts |-> miss] ELSE Text("None"))
            ELSE IF k = "negative_energy_consumption"
                 THEN (IF neg # <<>> THEN Records(neg) ELSE Text("None"))
            ELSE IF k = "data_freshness" THEN Freshness(df)
            ELSE temps[k]]

EmptyReport == [k \in {} |-> Text("None")]

\* perform_data_quality_checks: [raised, report]; df['max_temp_F'],
\* df['min_temp_F'] and df['energy_consumption'] are KeyErrors on a table
\* without the column
perform_data_quality_checks(df) ==
    IF IsEmpty(df) THEN [raised |-> FALSE, report |-> EmptyReport]
    ELSE IF ~({"max_temp_F", "min_temp_F", "energy_consumption"} \subseteq df.cols)
    THEN [raised |-> TRUE, report |-> EmptyReport]
    ELSE [raised |-> FALSE, report |-> QualityReport(df)]

\* save_processed_data: written only when the table is not empty
save_processed_data(df, file) == IF ~IsEmpty(df) THEN to_csv(df) ELSE file

----------------------------------------------------------------------------
(* analysis.py *)

\* df.dropna(subset=['max_temp_F', 'energy_consumption'])
DropNa(rows) ==
    SelectSeq(rows, LAMBDA r : ~IsNull(r.max_temp_F) /\ ~IsNull(r.energy_consumption))

\* pearsonr raises on fewer than 2 points; the error is caught and logged
PearsonDefined(rows) == Len(rows) >= 2

\* (variant: the rows with a null are not dropped before the counts)
analyze_correlation_KeepNa(df) ==
    IF IsEmpty(df) \/ ~({"max_temp_F", "energy_consumption"} \subseteq df.cols) THEN {}
    ELSE LET cleaned == df.rows
         IN  (IF PearsonDefined(cleaned) THEN {[scope |-> "overall", city |-> ""]} ELSE {})
             \cup {[scope |-> "city", city |-> c] : c \in
                     {c \in {r.city : r \in Range(cleaned)} :
                         LET city_df == SelectSeq(cleaned, LAMBDA r : r.city = c)
                         IN  Len(city_df) > 1 /\ PearsonDefined(city_df)}}

\* the keys of the result of analyze_correlation
analyze_correlation(df) ==
    IF IsEmpty(df) \/ ~({"max_temp_F", "energy_consumption"} \subseteq df.cols) THEN {}
    ELSE LET cleaned == DropNa(df.rows)
         IN  IF cleaned = <<>> THEN {}
             ELSE (IF PearsonDefined(cleaned) THEN {[scope |-> "overall", city |-> ""]} ELSE {})
                  \cup {[scope |-> "city", city |-> c] : c \in
                          {c \in {r.city : r \in Range(cleaned)} :
                              LET city_df == SelectSeq(cleaned, LAMBDA r : r.city = c)
                              IN  Len(city_df) > 1 /\ PearsonDefined(city_df)}}

----------------------------------------------------------------------------
(* pipeline.py: run_pipeline, one action per step *)

\* what an earlier run may have left in data/raw and data/processed
StaleWeather ==
    Frame({"date", "datatype", "value", "city"},
          <<[date |-> NoaaDate(Today - 3), datatype |-> "TMAX", value |-> Some(70), city |-> "CHI"],
            [date |-> NoaaDate(Today - 3), datatype |-> "TMIN", value |-> Some(70), city |-> "CHI"]>>)
StaleEnergy ==
    Frame({"period", "value", "region"},
          <<[period |-> EiaPeriod(Today - 3), value |-> Some(5), region |-> "CHI"]>>)
FreshDisk == [weather |-> NoFile, energy |-> NoFile, processed |-> NoFile]
StaleDisk == [weather |-> to_csv(StaleWeather), energy |-> to_csv(StaleEnergy),
              processed |-> to_csv(clean_and_transform_data(StaleWeather, StaleEnergy).df)]

InitRun ==
    /\ cityIdx = 0
    /\ attempts = 0
    /\ acc = <<>>
    /\ httpLog = <<>>
    /\ written = {}
    /\ weather_data = NoneFrame
    /\ energy_data = NoneFrame
    /\ quality_report = EmptyReport
    /\ correlation_results = {}
    /\ stages = <<>>
    /\ log = {}

Init ==
    /\ pc = "load_config"
    /\ config \in [file : ConfigFiles, noaa : Credentials, eia : Credentials]
    /\ disk \in {FreshDisk, StaleDisk}
    /\ InitRun
    /\ weather_df_proc = EmptyFrame
    /\ energy_df_proc = EmptyFrame
    /\ processed_df = EmptyFrame

\* lines 26-30
LoadConfig ==
    /\ pc = "load_config"
    /\ stages' = Append(stages, "load_config")
    /\ IF load_config(config)
       THEN pc' = "fetch_weather" /\ log' = log
       ELSE /\ pc' = "aborted"
            /\ log' = log \cup {LogEntry("error", "config", config.file),
                                LogEntry("error", "pipeline_aborted", "config")}
    /\ UNCHANGED <<config, disk, written, cityIdx, attempts, acc, httpLog, weather_data,
                   energy_data, weather_df_proc, energy_df_proc, processed_df,
                   quality_report, correlation_results>>

\* fetch_weather_data, lines 47-57: the token check before the loop
FetchWeatherBegin ==
    /\ pc = "fetch_weather"
    /\ stages' = Append(stages, "fetch_weather")
    /\ IF TokenOk(config.noaa)
       THEN /\ pc' = "weather_loop"
            /\ cityIdx' = 1 /\ attempts' = 0 /\ acc' = <<>>
            /\ UNCHANGED <<weather_data, log>>
       ELSE /\ pc' = "fetch_energy"
            /\ weather_data' = NoneFrame
            /\ log' = log \cup {LogEntry("error", "token", "noaa")}
            /\ UNCHANGED <<cityIdx, attempts, acc>>
    /\ UNCHANGED <<config, disk, written, httpLog, energy_data, weather_df_proc,
                   energy_df_proc, processed_df, quality_report, correlation_results>>

\* one attempt of requests.get inside _fetch_url_with_retry fails: another
\* attempt follows, or RetryError after the last one ends the fetch with None
WeatherAttemptFails ==
    /\ pc = "weather_loop" /\ cityIdx <= Len(Cities)
    /\ httpLog' = CallOutcome(CallIssued(httpLog, "noaa", Cities[cityIdx], attempts),
                               IF attempts + 1 < MaxAttempts THEN "pending"
                               ELSE "retries_exhausted", FALSE)
    /\ attempts' = attempts + 1
    /\ IF attempts + 1 < MaxAttempts
       THEN UNCHANGED <<pc, weather_data, log>>
       ELSE /\ pc' = "fetch_energy"
            /\ weather_data' = RetryErrorResult(acc)
            /\ log' = log \cup {LogEntry("error", "weather_fetch_failed", Cities[cityIdx])}
    /\ UNCHANGED <<config, disk, written, cityIdx, acc, energy_data, weather_df_proc,
                   energy_df_proc, processed_df, quality_report, correlation_results,
                   stages>>

\* an attempt succeeds, lines 70-85: the body is read and the loop moves on
WeatherAttemptSucceeds ==
    /\ pc = "weather_loop" /\ cityIdx <= Len(Cities)
    /\ attempts' = 0
    /\ \E body \in WeatherBodies :
          /\ httpLog' = CallOutcome(CallIssued(httpLog, "noaa", Cities[cityIdx], attempts),
                                     IF body.kind = "badjson" THEN "badjson" ELSE "ok",
                                     body.kind # "badjson" /\ WeatherHasResults(body))
          /\ IF body.kind = "badjson"
             THEN /\ pc' = "fetch_energy"
                  /\ weather_data' = RequestErrorResult(acc)
                  /\ log' = log \cup {LogEntry("error", "weather_fetch_error", Cities[cityIdx])}
                  /\ UNCHANGED <<cityIdx, acc>>
             ELSE /\ cityIdx' = cityIdx + 1
                  /\ IF WeatherHasResults(body)
                     THEN /\ acc' = Append(acc, WeatherCityFrame(Cities[cityIdx], body.rows))
                          /\ log' = log
                     ELSE /\ acc' = acc
                          /\ log' = log \cup {LogEntry("warning", "no_results", Cities[cityIdx])}
                  /\ UNCHANGED <<pc, weather_data>>
    /\ UNCHANGED <<config, disk, written, energy_data, weather_df_proc, energy_df_proc,
                   processed_df, quality_report, correlation_results, stages>>

\* lines 87-92
FetchWeatherEnd ==
    /\ pc = "weather_loop" /\ cityIdx > Len(Cities)
    /\ weather_data' = FetchResult(acc)
    /\ log' = IF acc = <<>> THEN log \cup {LogEntry("warning", "nothing_fetched", "noaa")}
              ELSE log
    /\ pc' = "fetch_energy"
    /\ UNCHANGED <<config, disk, written, cityIdx, attempts, acc, httpLog, energy_data,
                   weather_df_proc, energy_df_proc, processed_df, quality_report,
                   correlation_results, stages>>

\* fetch_energy_data, lines 99-108
FetchEnergyBegin ==
    /\ pc = "fetch_energy"
    /\ stages' = Append(stages, "fetch_energy")
    /\ IF TokenOk(config.eia)
       THEN /\ pc' = "energy_loop"
            /\ cityIdx' = 1 /\ attempts' = 0 /\ acc' = <<>>
            /\ UNCHANGED <<energy_data, log>>
       ELSE /\ pc' = "persist_raw"
            /\ energy_data' = NoneFrame
            /\ log' = log \cup {LogEntry("error", "token", "eia")}
            /\ UNCHANGED <<cityIdx, attempts, acc>>
    /\ UNCHANGED <<config, disk, written, httpLog, weather_data, weather_df_proc,
                   energy_df_proc, processed_df, quality_report, correlation_results>>

EnergyAttemptFails ==
    /\ pc = "energy_loop" /\ cityIdx <= Len(Cities)
    /\ httpLog' = CallOutcome(CallIssued(httpLog, "eia", Cities[cityIdx], attempts),
                               IF attempts + 1 < MaxAttempts THEN "pending"
                               ELSE "retries_exhausted", FALSE)
    /\ attempts' = attempts + 1
    /\ IF attempts + 1 < MaxAttempts
       THEN UNCHANGED <<pc, energy_data, log>>
       ELSE /\ pc' = "persist_raw"
            /\ energy_data' = RetryErrorResult(acc)
            /\ log' = log \cup {LogEntry("error", "energy_fetch_failed", Cities[cityIdx])}
    /\ UNCHANGED <<config, disk, written, cityIdx, acc, weather_data, weather_df_proc,
                   energy_df_proc, processed_df, quality_report, correlation_results,
                   stages>>

\* lines 122-137
EnergyAttemptSucceeds ==
    /\ pc = "energy_loop" /\ cityIdx <= Len(Cities)
    /\ attempts' = 0
    /\ \E body \in EnergyBodies :
          /\ httpLog' = CallOutcome(CallIssued(httpLog, "eia", Cities[cityIdx], attempts),
                                     IF body.kind = "badjson" THEN "badjson" ELSE "ok",
                                     body.kind # "badjson" /\ EnergyHasResults(body))
          /\ IF body.kind = "badjson"
             THEN /\ pc' = "persist_raw"
                  /\ energy_data' = RequestErrorResult(acc)
                  /\ log' = log \cup {LogEntry("error", "energy_fetch_error", Cities[cityIdx])}
                  /\ UNCHANGED <<cityIdx, acc>>
             ELSE /\ cityIdx' = cityIdx + 1
                  /\ IF EnergyHasResults(body)
                     THEN /\ acc' = Append(acc, EnergyCityFrame(Cities[cityIdx], body.rows))
                          /\ log' = log
                     ELSE /\ acc' = acc
                          /\ log' = log \cup {LogEntry("warning", "no_results", Cities[cityIdx])}
                  /\ UNCHANGED <<pc, energy_data>>
    /\ UNCHANGED <<config, disk, written, weather_data, weather_df_proc, energy_df_proc,
                   processed_df, quality_report, correlation_results, stages>>

\* lines 139-144
FetchEnergyEnd ==
    /\ pc = "energy_loop" /\ cityIdx > Len(Cities)
    /\ energy_data' = FetchResult(acc)
    /\ log' = IF acc = <<>> THEN log \cup {LogEntry("warning", "nothing_fetched", "eia")}
              ELSE log
    /\ pc' = "persist_raw"
    /\ UNCHANGED <<config, disk, written, cityIdx, attempts, acc, httpLog, weather_data,
                   weather_df_proc, energy_df_proc, processed_df, quality_report,
                   correlation_results, stages>>

\* lines 37-49: each raw table is written when its fetch gave one
PersistRaw ==
    /\ pc = "persist_raw"
    /\ stages' = Append(stages, "persist_raw")
    /\ disk' = [disk EXCEPT
                  !.weather = IF weather_data.isNone THEN @ ELSE to_csv(weather_data),
                  !.energy = IF energy_data.isNone THEN @ ELSE to_csv(energy_data)]
    /\ written' = written \cup (IF weather_data.isNone THEN {} ELSE {"historical_weather.csv"})
                          \cup (IF energy_data.isNone THEN {} ELSE {"historical_energy.csv"})
    /\ log' = log \cup (IF weather_data.isNone
                        THEN {LogEntry("warning", "no_data_fetched", "weather")} ELSE {})
                  \cup (IF energy_data.isNone
                        THEN {LogEntry("warning", "no_data_fetched", "energy")} ELSE {})
    /\ pc' = "load_raw"
    /\ UNCHANGED <<config, cityIdx, attempts, acc, httpLog, weather_data, energy_data,
                   weather_df_proc, energy_df_proc, processed_df, quality_report,
                   correlation_results>>

\* line 57: load_raw_data reads whatever the two raw files hold
LoadRaw ==
    /\ pc = "load_raw"
    /\ stages' = Append(stages, "load_raw")
    /\ weather_df_proc' = read_csv(disk.weather)
    /\ energy_df_proc' = read_csv(disk.energy)
    /\ log' = log \cup (IF disk.weather.exists THEN {}
                        ELSE {LogEntry("error", "file_not_found", "weather")})
                  \cup (IF disk.energy.exists THEN {}
                        ELSE {LogEntry("error", "file_not_found", "energy")})
    /\ pc' = "transform"
    /\ UNCHANGED <<config, disk, written, cityIdx, attempts, acc, httpLog, weather_data,
                   energy_data, processed_df, quality_report, correlation_results>>

\* (variant: the table is saved right after the transform, before any audit)
TransformThenSave ==
    /\ pc = "transform"
    /\ stages' = Append(stages, "transform")
    /\ LET res == clean_and_transform_data(weather_df_proc, energy_df_proc)
       IN  IF res.raised
           THEN pc' = "crashed" /\ UNCHANGED processed_df
           ELSE pc' = "persist_processed" /\ processed_df' = res.df
    /\ UNCHANGED <<config, disk, written, cityIdx, attempts, acc, httpLog, weather_data,
                   energy_data, weather_df_proc, energy_df_proc, quality_report,
                   correlation_results, log>>

\* line 59; an exception of the transformer ends the run
Transform ==
    /\ pc = "transform"
    /\ stages' = Append(stages, "transform")
    /\ LET res == clean_and_transform_data(weather_df_proc, energy_df_proc)
       IN  IF res.raised
           THEN pc' = "crashed" /\ UNCHANGED processed_df
           ELSE pc' = "audit" /\ processed_df' = res.df
    /\ UNCHANGED <<config, disk, written, cityIdx, attempts, acc, httpLog, weather_data,
                   energy_data, weather_df_proc, energy_df_proc, quality_report,
                   correlation_results, log>>

\* (variant: the auditor drops the duplicate rows of the table it is given)
AuditDropsDuplicates ==
    /\ pc = "audit"
    /\ stages' = Append(stages, "audit")
    /\ LET res == perform_data_quality_checks(processed_df)
       IN  IF res.raised
           THEN pc' = "crashed" /\ UNCHANGED quality_report
           ELSE pc' = "persist_processed" /\ quality_report' = res.report
    /\ processed_df' = [processed_df EXCEPT !.rows = drop_duplicates(@)]
    /\ UNCHANGED <<config, disk, written, cityIdx, attempts, acc, httpLog, weather_data,
                   energy_data, weather_df_proc, energy_df_proc, correlation_results, log>>

\* line 60; an exception of the auditor ends the run
Audit ==
    /\ pc = "audit"
    /\ stages' = Append(stages, "audit")
    /\ LET res == perform_data_quality_checks(processed_df)
       IN  IF res.raised
           THEN pc' = "crashed" /\ UNCHANGED quality_report
           ELSE pc' = "persist_processed" /\ quality_report' = res.report
    /\ UNCHANGED <<config, disk, written, cityIdx, attempts, acc, httpLog, weather_data,
                   energy_data, weather_df_proc, energy_df_proc, processed_df,
                   correlation_results, log>>

\* lines 62-67
PersistProcessed ==
    /\ pc = "persist_processed"
    /\ stages' = Append(stages, "persist_processed")
    /\ disk' = [disk EXCEPT !.processed = save_processed_data(processed_df, @)]
    /\ written' = written \cup (IF IsEmpty(processed_df) THEN {}
                                ELSE {"processed_energy_weather_data.csv"})
    /\ log' = log \cup (IF IsEmpty(processed_df)
                        THEN {LogEntry("warning", "not_saving", "processed")} ELSE {})
    /\ pc' = "analyze"
    /\ UNCHANGED <<config, cityIdx, attempts, acc, httpLog, weather_data, energy_data,
                   weather_df_proc, energy_df_proc, processed_df, quality_report,
                   correlation_results>>

\* lines 69-79
Analyze ==
    /\ pc = "analyze"
    /\ stages' = Append(stages, "analyze")
    /\ IF ~IsEmpty(processed_df)
       THEN correlation_results' = analyze_correlation(processed_df) /\ log' = log
       ELSE /\ UNCHANGED correlation_results
            /\ log' = log \cup {LogEntry("warning", "skipping_analysis", "processed")}
    /\ pc' = "done"
    /\ UNCHANGED <<config, disk, written, cityIdx, attempts, acc, httpLog, weather_data,
                   energy_data, weather_df_proc, energy_df_proc, processed_df,
                   quality_report>>

Next ==
    \/ LoadConfig
    \/ FetchWeatherBegin \/ WeatherAttemptFails \/ WeatherAttemptSucceeds \/ FetchWeatherEnd
    \/ FetchEnergyBegin \/ EnergyAttemptFails \/ EnergyAttemptSucceeds \/ FetchEnergyEnd
    \/ PersistRaw \/ LoadRaw \/ Transform \/ Audit \/ PersistProcessed \/ Analyze

Spec == Init /\ [][Next]_vars

\* the fetch stage alone, from the configuration to the return of the second
\* fetcher.  The run is one thread and every attempt of requests.get returns
\* or raises, so a step that can be taken is taken.
NextFetch ==
    \/ LoadConfig
    \/ FetchWeatherBegin \/ WeatherAttemptFails \/ WeatherAttemptSucceeds \/ FetchWeatherEnd
    \/ FetchEnergyBegin \/ EnergyAttemptFails \/ EnergyAttemptSucceeds \/ FetchEnergyEnd

SpecFetch == Init /\ [][NextFetch]_vars /\ WF_vars(NextFetch)

----------------------------------------------------------------------------
(* clean_and_transform_data alone, on bounded raw tables *)

TransformDates == {Today - 1, Today}
\* rows of a raw weather table; every observation of the bounded tables reads
\* 70, so the mean of a pivot cell is exact
RawWeatherRows ==
    [date : {NoaaDate(d) : d \in TransformDates}, datatype : {"TMAX", "TMIN"},
     value : {Some(70)}, city : {"CHI"}]
    \cup [date : {NoaaDate(Today)}, datatype : {"TMAX", "TMIN"},
          value : {Some(70)}, city : {"NYC"}]
\* rows of a raw energy table; a value can be missing (an empty cell of the
\* file reads as NaN)
RawEnergyRows ==
    [period : {EiaPeriod(d) : d \in TransformDates},
     value : {Some(-1), Some(5), Some(7), Null}, region : {"CHI"}]
    \cup [period : {EiaPeriod(Today)}, value : {Some(5)}, region : {"NYC"}]

RawWeatherTable(rows) ==
    IF rows = <<>> THEN EmptyFrame ELSE Frame({"date", "datatype", "value", "city"}, rows)
RawEnergyTable(rows) ==
    IF rows = <<>> THEN EmptyFrame ELSE Frame({"period", "value", "region"}, rows)

InitTransform ==
    /\ pc = "transform"
    /\ config = [file |-> "ok", noaa |-> "valid", eia |-> "valid"]
    /\ disk = FreshDisk
    /\ InitRun
    /\ \E w \in SeqsUpTo(RawWeatherRows, MaxRawRows), e \in SeqsUpTo(RawEnergyRows, MaxRawRows) :
          /\ weather_df_proc = RawWeatherTable(w)
          /\ energy_df_proc = RawEnergyTable(e)
    /\ processed_df = EmptyFrame

SpecTransform == InitTransform /\ [][Transform]_vars

----------------------------------------------------------------------------
(* perform_data_quality_checks alone, on bounded tables *)

QualityDates == {Today - 3, Today - 2}
CanonicalRows ==
    {[date |-> d, city |-> "CHI", max_temp_F |-> hi, min_temp_F |-> lo,
      energy_consumption |-> ec, energy_change |-> Null,
      day_of_week |-> day_name(d), is_weekend |-> dayofweek(d) >= 5] :
        d \in QualityDates,
        hi \in {Null, Some(HighTempLimit), Some(HighTempLimit + 1)},
        lo \in {Null, Some(LowTempLimit), Some(LowTempLimit - 1)},
        ec \in {Some(-1), Some(5)}}

\* the tables handed to the auditor: canonical tables, the two reduced
\* schemas, and the empty tables
AuditedTables ==
    {Frame(MergedCols \cup FeatureCols, rows) : rows \in SeqsUpTo(CanonicalRows, MaxTableRows)}
    \cup {EmptyFrame, Frame(MergedCols, <<>>)}
    \cup {clean_and_transform_data(RawWeatherTable(w), EmptyFrame).df :
            w \in {<<r1, r2>> : r1 \in RawWeatherRows, r2 \in RawWeatherRows} }
    \cup {clean_and_transform_data(EmptyFrame, RawEnergyTable(<<r>>)).df : r \in RawEnergyRows}

InitQuality ==
    /\ pc = "audit"
    /\ config = [file |-> "ok", noaa |-> "valid", eia |-> "valid"]
    /\ disk = FreshDisk
    /\ InitRun
    /\ weather_df_proc = EmptyFrame
    /\ energy_df_proc = EmptyFrame
    /\ processed_df \in AuditedTables

SpecQuality == InitQuality /\ [][Audit]_vars

\* analysis.py: analyze_correlation applied to canonical tables of two cities
\* with missing temperatures and missing consumption
MaxAnalysisRows == 3
AnalysisRows ==
    {[date |-> Today, city |-> c, max_temp_F |-> hi, min_temp_F |-> Some(70),
      energy_consumption |-> ec, energy_change |-> Null,
      day_of_week |-> day_name(Today), is_weekend |-> dayofweek(Today) >= 5] :
        c \in Range(Cities), hi \in {Null, Some(70)}, ec \in {Null, Some(5)}}
AnalyzedTables ==
    {Frame(MergedCols \cup FeatureCols, rows) : rows \in SeqsUpTo(AnalysisRows, MaxAnalysisRows)}

InitAnalysis ==
    /\ pc = "analyze"
    /\ config = [file |-> "ok", noaa |-> "valid", eia |-> "valid"]
    /\ disk = FreshDisk
    /\ InitRun
    /\ weather_df_proc = EmptyFrame
    /\ energy_df_proc = EmptyFrame
    /\ processed_df \in AnalyzedTables

SpecAnalysis == InitAnalysis /\ [][Analyze]_vars

----------------------------------------------------------------------------
(* Properties of the fetchers and of the run *)

CallsOf(service) == SelectSeq(httpLog, LAMBDA e : e.service = service)
ResultOf(service) == IF service = "noaa" THEN weather_data ELSE energy_data
TokenOf(service) == IF service = "noaa" THEN config.noaa ELSE config.eia
\* the fetcher of the service has returned
Returned(service) ==
    IF service = "noaa"
    THEN pc \notin {"load_config", "aborted", "fetch_weather", "weather_loop"}
    ELSE pc \notin {"load_config", "aborted", "fetch_weather", "weather_loop",
                    "fetch_energy", "energy_loop"}
RetriesExhausted(service) ==
    \E e \in Range(CallsOf(service)) : e.outcome = "retries_exhausted"
\* the fetcher ran its loop and no call of it failed
NoCallFailed(service) ==
    /\ Returned(service) /\ TokenOk(TokenOf(service))
    /\ \A e \in Range(CallsOf(service)) : e.outcome = "ok"

\* the configuration errors: the file missing or malformed, a credential
\* missing or left at its placeholder
ConfigError ==
    config.file # "ok" \/ ~TokenOk(config.noaa) \/ ~TokenOk(config.eia)
\* a run with a valid configuration in which both fetchers returned and no
\* call failed
CleanFetch == ~ConfigError /\ NoCallFailed("noaa") /\ NoCallFailed("eia")

\* C1: when the weather fetch exhausts its retries for a city, the run aborts:
\* no raw or processed artifact is written, no transform, audit or analyze
\* stage runs, and the failure is logged with the city.  Stated for the runs
\* whose configuration is valid.
C1_WeatherFailureAbortsRun ==
    (~ConfigError /\ RetriesExhausted("noaa")) =>
        /\ written = {}
        /\ Range(stages) \cap {"transform", "audit", "analyze"} = {}
        /\ \A e \in Range(CallsOf("noaa")) :
              e.outcome = "retries_exhausted" =>
                  LogEntry("error", "weather_fetch_failed", e.city) \in log

\* C2: in each fetcher, a city whose call fails after its retries ends the
\* fetch: the call is the last one the fetcher issues and the fetcher's
\* result is None, never the table of the cities fetched before.
C2_FailedCityEndsFetch ==
    \A service \in {"noaa", "eia"} :
        LET calls == CallsOf(service)
        IN  \A i \in 1..Len(calls) :
                calls[i].outcome = "retries_exhausted" =>
                    /\ i = Len(calls)
                    /\ ResultOf(service).isNone

\* C2 witness: the second city fails after the first one gave rows
C2_Witness ==
    LET calls == CallsOf("noaa")
    IN  /\ Len(calls) = 2
        /\ calls[1].contributed
        /\ calls[2].outcome = "retries_exhausted"
        /\ Returned("noaa")

\* C3: a configuration error (file missing or malformed, a credential missing
\* or left at its placeholder) aborts the run before any HTTP request.
C3_ConfigErrorNoNetworkCall == ConfigError => httpLog = <<>>

\* C4 as stated: when every HTTP call of a fetch succeeds, every city is
\* called and the fetcher returns a table, whichever cities came back empty.
C4_EmptyCitiesNeverFatal ==
    \A service \in {"noaa", "eia"} :
        NoCallFailed(service) =>
            /\ [i \in 1..Len(CallsOf(service)) |-> CallsOf(service)[i].city] = Cities
            /\ ~ResultOf(service).isNone

\* C4 amended: when every HTTP call of a fetch succeeds, every city is called
\* (also after an empty one), and the fetcher returns a table exactly when at
\* least one city's response gave a frame; when none did it returns None.
C4_EmptyCityNotFatalUnlessAll ==
    \A service \in {"noaa", "eia"} :
        NoCallFailed(service) =>
            /\ [i \in 1..Len(CallsOf(service)) |-> CallsOf(service)[i].city] = Cities
            /\ ResultOf(service).isNone <=>
                   (\A e \in Range(CallsOf(service)) : ~e.contributed)

\* C4 witness: the first city came back empty, the second gave rows, and the
\* fetcher returned a table
C4_Witness ==
    /\ NoCallFailed("eia")
    /\ ~CallsOf("eia")[1].contributed
    /\ CallsOf("eia")[2].contributed
    /\ ~energy_data.isNone /\ energy_data.rows # <<>>

----------------------------------------------------------------------------
(* Properties of the transformer *)

\* the transformer returned a table
Transformed == pc = "audit"
KeyOf(r) == [date |-> r.date, city |-> r.city]
\* the indexes of the rows of one city, and the previous one of them
CityRowsOf(rows, c) == {i \in 1..Len(rows) : rows[i].city = c}
PrevOfCity(rows, i) ==
    LET before == {j \in CityRowsOf(rows, rows[i].city) : j < i}
    IN  CHOOSE j \in before : \A k \in before : k <= j
BothSourcesNonEmpty == ~IsEmpty(weather_df_proc) /\ ~IsEmpty(energy_df_proc)

\* C5: when both sources are non-empty, every (date, city) pair appears at
\* most once in the table the transformer returns.
C5_DateCityIsKey ==
    (Transformed /\ BothSourcesNonEmpty) =>
        \A i, j \in 1..Len(processed_df.rows) :
            KeyOf(processed_df.rows[i]) = KeyOf(processed_df.rows[j]) => i = j

\* C6: in the returned table the records of each city stand in chronological
\* order whatever the order of the raw rows; energy_change is null on the
\* city's first record and, on each later one, the record's
\* energy_consumption minus that of the city's record just before it.
C6_EnergyChangeIsFirstDifference ==
    (Transformed /\ "energy_change" \in processed_df.cols) =>
        LET rows == processed_df.rows
        IN  \A i \in 1..Len(rows) :
                IF \A j \in CityRowsOf(rows, rows[i].city) : i <= j
                THEN /\ IsNull(rows[i].energy_change)
                     /\ \A j \in CityRowsOf(rows, rows[i].city) : rows[i].date <= rows[j].date
                ELSE LET p == PrevOfCity(rows, i)
                     IN  /\ rows[p].date <= rows[i].date
                         /\ \A j \in CityRowsOf(rows, rows[i].city) :
                               rows[j].date < rows[i].date => rows[j].date <= rows[p].date
                         /\ rows[i].energy_change =
                               Some(Val(rows[i].energy_consumption)
                                    - Val(rows[p].energy_consumption))

\* C6 witness: both raw tables list a city's later day first, and the
\* returned table holds the two days in order with the difference on the second
C6_Witness ==
    /\ Transformed
    /\ Len(weather_df_proc.rows) = 2 /\ Len(energy_df_proc.rows) = 2
    /\ to_datetime(weather_df_proc.rows[1].date) > to_datetime(weather_df_proc.rows[2].date)
    /\ to_datetime(energy_df_proc.rows[1].period) > to_datetime(energy_df_proc.rows[2].period)
    /\ Len(processed_df.rows) = 2
    /\ processed_df.rows[1].city = processed_df.rows[2].city
    /\ processed_df.rows[1].date < processed_df.rows[2].date
    /\ IsNull(processed_df.rows[1].energy_change)
    /\ processed_df.rows[2].energy_change = Some(2)

----------------------------------------------------------------------------
(* Properties of the audit *)

\* the auditor returned its report
Audited == pc \in {"persist_processed", "analyze", "done"}
\* the rows of the inner join, before the transformer drops any of them
JoinedRows ==
    IF BothSourcesNonEmpty /\ WeatherColsPresent(pivot_table(weather_df_proc))
    THEN MergeRows(WeatherWide(weather_df_proc).rows, EnergyClean(energy_df_proc).rows)
    ELSE <<>>
\* the rows a report entry lists, without the derived columns
Listed(report, key) ==
    IF key \in DOMAIN report /\ "records" \in DOMAIN report[key]
    THEN [i \in 1..Len(report[key].records) |->
              [c \in MergedCols |-> report[key].records[i][c]]]
    ELSE <<>>
JoinedNegative == SelectSeq(JoinedRows, LAMBDA r : Val(r.energy_consumption) < 0)

\* C7: the joined rows with negative energy_consumption, which the
\* transformer excludes, are the rows the run's quality report lists under
\* negative_energy_consumption.  Stated for the runs whose fetch stage had no
\* error.
C7_NegativeRowsReported ==
    (Audited /\ CleanFetch /\ JoinedNegative # <<>>) =>
        Range(Listed(quality_report, "negative_energy_consumption")) = Range(JoinedNegative)

\* the joined rows that the negative-energy filter keeps
JoinedKept == NonNegativeEnergy(JoinedRows)

\* C8: full-row duplicates of the joined data are listed under duplicates in
\* the run's quality report: no deduplication comes before the audit.  Stated
\* for the runs whose fetch stage had no error and for the duplicates with
\* non-negative energy_consumption, which only a deduplication can remove.
C8_DuplicatesReportedBeforeRemoval ==
    (Audited /\ CleanFetch) =>
        Range(KeepWhere(JoinedKept, 1, Duplicated(JoinedKept)))
            \subseteq Range(Listed(quality_report, "duplicates"))

ReportFields == {"duplicates", "missing_values", "high_temp_outliers", "low_temp_outliers",
                 "negative_energy_consumption", "data_freshness"}

\* C9: the report of a non-empty table holds all six fields; the report of an
\* empty table is empty.
C9_ReportFieldsAlwaysPresent ==
    Audited =>
        IF IsEmpty(processed_df) THEN DOMAIN quality_report = {}
        ELSE DOMAIN quality_report = ReportFields

\* C10: the auditor raises on no table the transformer returns, the
\* reduced-schema table of a run with one empty source included; the run
\* goes on to its completion step.  Stated for the runs whose fetch stage had
\* no error.
C10_AuditNeverRaises ==
    CleanFetch => ~(pc = "crashed" /\ stages # <<>> /\ stages[Len(stages)] = "audit")

----------------------------------------------------------------------------
(* Properties of the run's inputs and stage order *)

\* what load_raw_data reads back of a table fetched in this run
FetchedThisRun(data) == IF data.isNone THEN EmptyFrame ELSE read_csv(to_csv(data))
RawLoaded == "load_raw" \in Range(stages)

\* C11: the raw tables the run transforms, audits, persists and analyzes are
\* the tables fetched in this run, never files an earlier run left on disk.
\* Stated for the runs whose fetch stage had no error.
C11_OnlyThisRunsRawData ==
    (RawLoaded /\ CleanFetch) =>
        /\ weather_df_proc = FetchedThisRun(weather_data)
        /\ energy_df_proc = FetchedThisRun(energy_data)

----------------------------------------------------------------------------
(* Properties of the auditor's thresholds *)

AuditedRows == Range(processed_df.rows)
AuditedNonEmpty == Audited /\ ~IsEmpty(processed_df)
\* the rows a report entry lists, as the report holds them
ReportRecords(report, key) ==
    IF key \in DOMAIN report /\ "records" \in DOMAIN report[key]
    THEN Range(report[key].records)
    ELSE {}

\* C12: the report says Stale exactly when the table's latest date is more
\* than 2 days before today, and Fresh otherwise: a latest date 3 days old is
\* Stale, one 2 days old is Fresh.
C12_StaleAfterTwoDays ==
    AuditedNonEmpty =>
        /\ (\A r \in AuditedRows : Today - r.date >= 3)
               <=> quality_report["data_freshness"].text = "Stale"
        /\ (\E r \in AuditedRows : Today - r.date <= 2)
               <=> quality_report["data_freshness"] = [text |-> "Fresh"]
\* a table whose latest date is exactly 3 days old was audited and is Stale
C12_Witness ==
    /\ AuditedNonEmpty
    /\ \E r \in AuditedRows : Today - r.date = 3
    /\ \A r \in AuditedRows : Today - r.date >= 3
    /\ quality_report["data_freshness"].text = "Stale"

\* C13: the rows listed under high_temp_outliers are the rows with
\* max_temp_F > 130 (131 is listed, 130 is not), and the rows listed under
\* low_temp_outliers are the rows with min_temp_F < -50 (-51 is listed, -50
\* is not).
C13_OutlierLimitsAreStrict ==
    AuditedNonEmpty =>
        \A r \in AuditedRows :
            /\ r \in ReportRecords(quality_report, "high_temp_outliers")
                   <=> (~IsNull(r.max_temp_F) /\ Val(r.max_temp_F) > 130)
            /\ r \in ReportRecords(quality_report, "low_temp_outliers")
                   <=> (~IsNull(r.min_temp_F) /\ Val(r.min_temp_F) < -50)
\* a table with a 131 and a 130 maximum and a -51 and a -50 minimum was
\* audited, and the report has both outlier entries
C13_Witness ==
    /\ AuditedNonEmpty
    /\ \E r \in AuditedRows : r.max_temp_F = Some(131) /\ r.min_temp_F = Some(-50)
    /\ \E r \in AuditedRows : r.max_temp_F = Some(130) /\ r.min_temp_F = Some(-51)
    /\ Cardinality(ReportRecords(quality_report, "high_temp_outliers")) = 1
    /\ Cardinality(ReportRecords(quality_report, "low_temp_outliers")) = 1

----------------------------------------------------------------------------
(* Properties of the analysis *)

CityEntry(c) == [scope |-> "city", city |-> c]
\* the rows of a city with both a maximum temperature and a consumption
ValidRowsOf(c) ==
    {i \in 1..Len(processed_df.rows) :
        /\ processed_df.rows[i].city = c
        /\ ~IsNull(processed_df.rows[i].max_temp_F)
        /\ ~IsNull(processed_df.rows[i].energy_consumption)}

\* C14: after the analysis a city has an entry in the result only if it has
\* at least 2 rows with both max_temp_F and energy_consumption; a city with 0
\* or 1 such rows has no entry, and a city with 2 or more has its entry
\* whatever the other cities have.
C14_CityEntryNeedsTwoRows ==
    pc = "done" =>
        \A c \in Range(Cities) :
            CityEntry(c) \in correlation_results <=> Cardinality(ValidRowsOf(c)) >= 2
\* a table was analyzed where one city has 2 valid rows and an entry and the
\* other has rows but fewer than 2 valid ones and no entry
C14_Witness ==
    /\ pc = "done"
    /\ \E c, o \in Range(Cities) :
          /\ Cardinality(ValidRowsOf(c)) >= 2 /\ CityEntry(c) \in correlation_results
          /\ o \in {r.city : r \in Range(processed_df.rows)}
          /\ Cardinality(ValidRowsOf(o)) < 2 /\ CityEntry(o) \notin correlation_results

----------------------------------------------------------------------------
(* Properties of the stage order *)

\* the stages of the run so far, restricted to those of an order, are the
\* first stages of that order
RunsInOrder(order) ==
    LET ran == SelectSeq(stages, LAMBDA s : s \in Range(order))
    IN  Len(ran) <= Len(order) /\ ran = SubSeq(order, 1, Len(ran))

\* C15: the stages of a run happen in the order load config, fetch, persist
\* raw, transform, persist canonical table, audit, analyze: the canonical
\* table is persisted before the audit runs, and the audit runs before the
\* analysis.
C15_SaveThenAuditThenAnalyze ==
    RunsInOrder(<<"load_config", "fetch_weather", "fetch_energy", "persist_raw",
                  "transform", "persist_processed", "audit", "analyze">>)
\* C15, amended: the order is load config, fetch, persist raw, transform,
\* audit, persist canonical table, analyze: the audit runs before the
\* canonical table is persisted, and both before the analysis.
C15_AuditThenSaveThenAnalyze ==
    RunsInOrder(<<"load_config", "fetch_weather", "fetch_energy", "persist_raw",
                  "transform", "audit", "persist_processed", "analyze">>)
\* a run went through every stage and saved its canonical table
C15_Witness ==
    /\ pc = "done"
    /\ {"audit", "persist_processed", "analyze"} \subseteq Range(stages)
    /\ "processed_energy_weather_data.csv" \in written

----------------------------------------------------------------------------
(* Properties of the auditor's effect on its input *)

\* C16: the auditor does not change the table it is given: after the call,
\* whether it returned a report or raised, the table has the rows, the
\* columns and the values it had before the call.
C16_AuditLeavesTableUnchanged ==
    [][pc = "audit" => processed_df' = processed_df]_vars
\* a table with a duplicate row and a negative consumption was audited: the
\* report lists them and the table still holds them
C16_Witness ==
    /\ pc = "persist_processed"
    /\ Duplicated(processed_df.rows) # {}
    /\ ReportRecords(quality_report, "duplicates") # {}
    /\ ReportRecords(quality_report, "negative_energy_consumption") # {}
    /\ \E r \in AuditedRows : r.energy_consumption = Some(-1)

----------------------------------------------------------------------------
(* Properties of the join and of the weather reshape *)

WeatherKeys ==
    {[date |-> to_datetime(r.date), city |-> r.city] : r \in Range(weather_df_proc.rows)}
EnergyKeys ==
    {[date |-> to_datetime(r.period), city |-> r.region] : r \in Range(energy_df_proc.rows)}
\* the consumption values the raw energy table has for a key
EnergyValuesOf(k) ==
    {r.value : r \in {e \in Range(energy_df_proc.rows) :
                         to_datetime(e.period) = k.date /\ e.region = k.city}}
\* the keys whose consumption is negative, in every row the table has for them
NegativeKeys ==
    {k \in EnergyKeys : \A v \in EnergyValuesOf(k) : ~IsNull(v) /\ Val(v) < 0}

\* C17: when both sources are non-empty, the (date, city) keys of the table
\* the transformer returns are the keys present in both the weather and the
\* energy table, minus the keys whose energy_consumption is negative; a key
\* of one source only never appears.
C17_KeysAreJoinMinusNegative ==
    (Transformed /\ BothSourcesNonEmpty) =>
        {KeyOf(r) : r \in Range(processed_df.rows)}
            = (WeatherKeys \cap EnergyKeys) \ NegativeKeys

\* the values the raw weather table has for a key and a datatype
WeatherValuesOf(k, datatype) ==
    {r.value : r \in {w \in Range(weather_df_proc.rows) :
                         /\ to_datetime(w.date) = k.date /\ w.city = k.city
                         /\ w.datatype = datatype}}
\* the cell the wide table is to hold: a value of the observations, or null
\* when the key has none of that datatype
IsCellOf(cell, k, datatype) ==
    IF WeatherValuesOf(k, datatype) = {} THEN IsNull(cell)
    ELSE cell \in WeatherValuesOf(k, datatype)

\* C18: for every (date, city) with at least one TMAX or TMIN observation the
\* wide weather table has exactly one row, with max_temp_F from the TMAX
\* observations and min_temp_F from the TMIN ones and a null in the column
\* whose datatype the key lacks, also when a datatype is missing from every
\* row of the input.  Stated on the runs with an empty energy table, where
\* the transformer returns the wide weather table itself.
C18_OneWideRowPerKey ==
    (pc # "transform" /\ ~IsEmpty(weather_df_proc) /\ IsEmpty(energy_df_proc)) =>
        /\ pc = "audit"
        /\ \A k \in WeatherKeys :
              \E i \in 1..Len(processed_df.rows) :
                  /\ KeyOf(processed_df.rows[i]) = k
                  /\ \A j \in 1..Len(processed_df.rows) :
                        KeyOf(processed_df.rows[j]) = k => j = i
                  /\ IsCellOf(processed_df.rows[i].max_temp_F, k, "TMAX")
                  /\ IsCellOf(processed_df.rows[i].min_temp_F, k, "TMIN")

----------------------------------------------------------------------------
(* Properties of the retries *)

FetchersReturned == pc = "aborted" \/ Returned("eia")

====
